---- MODULE Spec2Model ----
(***************************************************************************)
(* Billing / inventory engine of ElectroBill (phani-coder/billingms).      *)
(*                                                                         *)
(* The store is the Dexie (IndexedDB) database of src/src/db/database.ts.  *)
(* A db.transaction('rw', tables, fn) is an IndexedDB read-write           *)
(* transaction: it holds its tables exclusively from its first request to  *)
(* its commit, it sees its own writes, and an exception thrown inside fn   *)
(* (or a storage failure) aborts it and discards every write.  A single    *)
(* table call outside a transaction (db.invoices.add, db.items.get) is an  *)
(* implicit transaction of its own and waits for the table to be free.     *)
(*                                                                         *)
(* Each process is one caller (a page instance of the app); a handler is   *)
(* cut into steps at its awaits, so that callers interleave where the      *)
(* JavaScript event loop lets them.                                        *)
(***************************************************************************)
EXTENDS Integers, Sequences, FiniteSets, Bags, TLC

\* ------------------------------------------------------------------ bounds
NumProcs == 2
NumItems == 2
InitialStock == 1
MaxQty == 2
MaxLines == 2
MaxAlloc == 3
MaxInvoices == 2
MaxPurchases == 1
MaxLedger == 3
MaxTaxablePaise == 200
PriceStepPaise == 25
MaxPriceSteps == 4
MaxDiscountPaise == 1
MaxTokens == 2
TimeUnitHours == 4
MaxClock == 3

\* ------------------------------------------------------- program constants
InitialInvoiceNumber == 1000
InitialPurchaseNumber == 500

Procs == 1..NumProcs
Items == 1..NumItems
NoProc == 0
NoNumber == <<>>
Tables == {"settings", "items", "stockLedger", "invoices", "purchases"}

\* What `new Date()` may read when a number is allocated: March and April of
\* one calendar year (getMonth() is 0-based), i.e. both sides of a fiscal year.
Dates == {[year |-> 2025, month |-> m] : m \in {2, 3}}

\* A billing line: parseInt(value) || 1 lets any non-zero integer through
\* (Billing.tsx:328); the list never holds the same item twice (Billing.tsx:50).
SaleQuantities == {-1} \cup (1..MaxQty)
\* The quantities the input's min="1" asks for.
FormQuantities == 1..MaxQty
\* A purchase line: quantity is clamped to 1..99999 (Purchases updateItem).
PurchaseQuantities == 1..MaxQty

RECURSIVE SeqsOver(_, _)
SeqsOver(S, n) ==
    IF n = 0 THEN {<<>>}
    ELSE LET shorter == SeqsOver(S, n - 1)
         IN  shorter \cup {Append(s, x) : s \in {t \in shorter : Len(t) = n - 1}, x \in S}

DistinctItems(lines) ==
    \A a, b \in 1..Len(lines) : a < b => lines[a].itemId < lines[b].itemId

Batches(quantities) ==
    {lines \in SeqsOver([itemId : Items, quantity : quantities], MaxLines) :
        Len(lines) >= 1 /\ DistinctItems(lines)}

VARIABLES
    settings,     \* the settings row: the two sequence counters and the prefix
    items,        \* items table: item id -> currentStock
    stockLedger,  \* stockLedger table, in creation (auto-increment id) order
    invoices,     \* invoices table, by auto-increment id
    purchases,    \* purchases table, by auto-increment id
    locks,        \* table -> the process whose rw transaction holds it
    pc,           \* process -> where its handler stands
    loc,          \* process -> the handler's local variables
    page,         \* process -> React state of its Billing / Purchases page
    res,          \* process -> how its last handler ended
    issued,       \* bag of the numbers the allocators have returned
    calc,         \* the last call of the tax calculator: function, arguments, result
    activeSessions, \* main process: token -> the session registered under it
    clock,          \* what new Date() reads, in units of TimeUnitHours
    sessionStorage, \* the window: the token it stored at login, if any
    minted,         \* token -> the expiresAt it was registered with, and
                    \* whether auth-logout has invalidated it
    ipc             \* the last handler call: channel, token and outcome

vars == <<settings, items, stockLedger, invoices, purchases, locks, pc, loc,
          page, res, issued, calc, activeSessions, clock, sessionStorage,
          minted, ipc>>

authVars == <<activeSessions, clock, sessionStorage, minted, ipc>>

\* The roles, and what ROLE_PERMISSIONS grants each of the permissions the
\* document and item operations are governed by.
Roles == {"superadmin", "admin", "billing_staff", "purchase_staff", "readonly_auditor"}

ROLE_PERMISSIONS ==
    [role \in Roles |->
        CASE role = "superadmin" ->
                 {"canCreateInvoice", "canCancelInvoice", "canCreatePurchase",
                  "canManageInventory", "canManageUsers", "canBackup",
                  "canViewAuditLog"}
          [] role = "admin" ->
                 {"canCreateInvoice", "canCancelInvoice", "canCreatePurchase",
                  "canManageInventory", "canBackup", "canViewAuditLog"}
          [] role = "billing_staff" -> {"canCreateInvoice"}
          [] role = "purchase_staff" -> {"canCreatePurchase", "canManageInventory"}
          [] role = "readonly_auditor" -> {"canViewAuditLog"}]

\* No session: nobody has logged in, or the session was logged out or expired.
NoSession == "none"

\* Tokens are numbered in the order auth-login generates them
\* (crypto.randomBytes(32): no value comes twice); NoToken is the '' that
\* getToken() returns when sessionStorage holds none.
NoToken == 0

\* auth-login: expiresAt = Date.now() + 8 * 60 * 60 * 1000.
SessionLife == 8 \div TimeUnitHours
Tokens == NoToken..MaxTokens

\* What activeSessions.get returns for a token it does not hold.
Null == [role |-> NoSession, expiresAt |-> 0]

NoCall == [channel |-> "none", token |-> NoToken, outcome |-> "none"]

\* A user of the role logged in as the main process started.
LoggedIn(role) ==
    /\ activeSessions = [t \in {1} |-> [role |-> role, expiresAt |-> SessionLife]]
    /\ clock = 0
    /\ sessionStorage = 1
    /\ minted = <<[expiresAt |-> SessionLife, ended |-> FALSE]>>
    /\ ipc = [channel |-> "auth-login", token |-> 1, outcome |-> "ok"]

\* Nobody has logged in since the main process started.
NoSessions ==
    /\ activeSessions = <<>>
    /\ clock = 0
    /\ sessionStorage = NoToken
    /\ minted = <<>>
    /\ ipc = NoCall

\* No tax computation has been made.
NoArguments ==
    [taxableAmount |-> 0, gstPercent |-> 0, isInterState |-> FALSE, lines |-> <<>>,
     now |-> [year |-> 2025, month |-> 3, day |-> 1]]

NoCalculation == [fn |-> "none", args |-> NoArguments, result |-> <<>>]

IdleLoc ==
    [next |-> 0, lines |-> <<>>, status |-> "none", ref |-> NoNumber,
     invId |-> 0, failed |-> FALSE, wItems |-> [i \in Items |-> 0],
     wLedger |-> <<>>]

Init ==
    /\ settings = [invoicePrefix |-> "SE",
                   currentInvoiceNumber |-> InitialInvoiceNumber,
                   currentPurchaseNumber |-> InitialPurchaseNumber]
    /\ items = [i \in Items |-> InitialStock]
    /\ stockLedger = <<>>
    /\ invoices = <<>>
    /\ purchases = <<>>
    /\ locks = [t \in Tables |-> NoProc]
    /\ pc = [p \in Procs |-> "idle"]
    /\ loc = [p \in Procs |-> IdleLoc]
    /\ page = [p \in Procs |-> [invoiceNumber |-> NoNumber, purchaseNumber |-> NoNumber]]
    /\ res = [p \in Procs |-> "none"]
    /\ issued = EmptyBag
    /\ calc = NoCalculation
    /\ NoSessions

\* ------------------------------------------------------------------ sessions
registerSession(token, role, expiresAt) ==
    [t \in DOMAIN activeSessions \cup {token} |->
        IF t = token THEN [role |-> role, expiresAt |-> expiresAt]
        ELSE activeSessions[t]]

invalidateSession(token) ==
    [t \in DOMAIN activeSessions \ {token} |-> activeSessions[t]]

\* getSession(token) returns the session of the token, or Null for a token
\* the map does not hold and for one whose expiresAt the clock has passed ...
getSession(token) ==
    IF token \notin DOMAIN activeSessions THEN Null
    ELSE IF clock > activeSessions[token].expiresAt THEN Null
    ELSE activeSessions[token]

\* ... and the expired session it met is deleted from the map.
SessionsAfterGetSession(token) ==
    IF token \in DOMAIN activeSessions /\ clock > activeSessions[token].expiresAt
    THEN invalidateSession(token)
    ELSE activeSessions

\* requirePermission(token, permission) returns ("ok") or throws the error
\* it names.
requirePermission(token, permission) ==
    IF getSession(token) = Null THEN "AUTH_REQUIRED"
    ELSE IF permission \notin ROLE_PERMISSIONS[getSession(token).role]
         THEN "ACCESS_DENIED"
    ELSE "ok"

\* The role of the session the window's token names, if it names one.
session == getSession(sessionStorage).role

\* auth-login of a user of the role: a session is registered under a fresh
\* token for SessionLife from now, and the login page stores the token
\* (setCurrentUser).
AuthLogin(role) ==
    /\ Len(minted) < MaxTokens
    /\ activeSessions' = registerSession(Len(minted) + 1, role, clock + SessionLife)
    /\ minted' = Append(minted, [expiresAt |-> clock + SessionLife, ended |-> FALSE])
    /\ sessionStorage' = Len(minted) + 1
    /\ ipc' = [channel |-> "auth-login", token |-> Len(minted) + 1, outcome |-> "ok"]
    /\ UNCHANGED <<settings, items, stockLedger, invoices, purchases, locks,
                   pc, loc, page, res, issued, calc, clock>>

\* auth-logout: a token that names a session is invalidated, one that names
\* an expired session is deleted by getSession, and for any other the handler
\* does nothing; it succeeds in each case.
AuthLogoutKeepsSession(token) ==
    /\ activeSessions' = SessionsAfterGetSession(token)
    /\ minted' = IF getSession(token) # Null
                 THEN [minted EXCEPT ![token].ended = TRUE] ELSE minted
    /\ ipc' = [channel |-> "auth-logout", token |-> token, outcome |-> "ok"]
    /\ UNCHANGED <<settings, items, stockLedger, invoices, purchases, locks,
                   pc, loc, page, res, issued, calc, clock, sessionStorage>>

AuthLogout(token) ==
    /\ activeSessions' = invalidateSession(token)
    /\ minted' = IF getSession(token) # Null
                 THEN [minted EXCEPT ![token].ended = TRUE] ELSE minted
    /\ ipc' = [channel |-> "auth-logout", token |-> token, outcome |-> "ok"]
    /\ UNCHANGED <<settings, items, stockLedger, invoices, purchases, locks,
                   pc, loc, page, res, issued, calc, clock, sessionStorage>>

\* The handlers that read or change business data, and the permission each
\* asks requirePermission for; auth-change-password asks getSession for a
\* session of any role.
AnyRole == "any"

PermissionOfChannel ==
    [channel \in {"auth-change-password", "auth-create-user", "get-items",
                  "add-item", "update-item", "delete-item", "backup-db",
                  "get-audit-log"} |->
        CASE channel = "auth-change-password" -> AnyRole
          [] channel = "auth-create-user" -> "canManageUsers"
          [] channel \in {"get-items", "add-item", "update-item", "delete-item"} ->
                 "canManageInventory"
          [] channel = "backup-db" -> "canBackup"
          [] channel = "get-audit-log" -> "canViewAuditLog"]

Channels == DOMAIN PermissionOfChannel

\* What the first statement of the channel's handler makes of the token.
Verify(channel, token) ==
    IF PermissionOfChannel[channel] = AnyRole
    THEN IF getSession(token) = Null THEN "AUTH_REQUIRED" ELSE "ok"
    ELSE requirePermission(token, PermissionOfChannel[channel])

\* A call of a handler with any token at all.  The handler goes on to the
\* database when the verification returns and throws otherwise; the rows it
\* then reads or writes are users, audit entries and item fields that the
\* model does not hold, but for the stock update-item stores (UpdateItem).
IpcHandle(channel, token) ==
    /\ channel = "update-item" => Verify(channel, token) # "ok"
    /\ activeSessions' = SessionsAfterGetSession(token)
    /\ ipc' = [channel |-> channel, token |-> token,
               outcome |-> Verify(channel, token)]
    /\ UNCHANGED <<settings, items, stockLedger, invoices, purchases, locks,
                   pc, loc, page, res, issued, calc, clock, sessionStorage,
                   minted>>

\* Time passes.
Tick ==
    /\ clock < MaxClock
    /\ clock' = clock + 1
    /\ UNCHANGED <<settings, items, stockLedger, invoices, purchases, locks,
                   pc, loc, page, res, issued, calc, activeSessions,
                   sessionStorage, minted, ipc>>

\* ------------------------------------------------------------ transactions
CanLock(tables) == \A t \in tables : locks[t] = NoProc

Lock(p, tables) == [t \in Tables |-> IF t \in tables THEN p ELSE locks[t]]

Unlock(p) == [t \in Tables |-> IF locks[t] = p THEN NoProc ELSE locks[t]]

\* The handler of p is over: its locals are dropped.
Finish(p, outcome) ==
    /\ pc' = [pc EXCEPT ![p] = "idle"]
    /\ loc' = [loc EXCEPT ![p] = IdleLoc]
    /\ res' = [res EXCEPT ![p] = outcome]

\* -------------------------------------------------------- number allocation
getFiscalYearOfCalendarYear(now) == <<now.year, (now.year + 1) % 100>>

\* The label `${year}-${(year + 1) % 100}` as its two numbers.
getFiscalYear(now) ==
    LET year == IF now.month >= 3 THEN now.year ELSE now.year - 1
    IN  <<year, (year + 1) % 100>>

InvoiceNumber(prefix, fy, next) == <<prefix, fy, next>>

PurchaseNumber(next) == <<"PUR", next>>

SequenceOf(number) == number[Len(number)]

\* getNextInvoiceNumber, up to the read: the transaction takes the settings
\* table and computes next from the stored counter.
GetNextInvoiceNumberReadNoTransaction(p) ==
    /\ settings.currentInvoiceNumber < InitialInvoiceNumber + MaxAlloc
    /\ loc' = [loc EXCEPT ![p] = [IdleLoc EXCEPT !.next = settings.currentInvoiceNumber + 1]]
    /\ pc' = [pc EXCEPT ![p] = "inv_number_write"]
    /\ UNCHANGED <<settings, items, stockLedger, invoices, purchases, locks,
                   page, res, issued>>
    /\ UNCHANGED <<calc, authVars>>

GetNextInvoiceNumberRead(p) ==
    /\ settings.currentInvoiceNumber < InitialInvoiceNumber + MaxAlloc
    /\ CanLock({"settings"})
    /\ locks' = Lock(p, {"settings"})
    /\ loc' = [loc EXCEPT ![p] = [IdleLoc EXCEPT !.next = settings.currentInvoiceNumber + 1]]
    /\ pc' = [pc EXCEPT ![p] = "inv_number_write"]
    /\ UNCHANGED <<settings, items, stockLedger, invoices, purchases, page,
                   res, issued>>
    /\ UNCHANGED <<calc, authVars>>

\* The number is returned without db.settings.update having been issued.
GetNextInvoiceNumberWriteNotPersisted(p) ==
    /\ pc[p] = "inv_number_write"
    /\ \E now \in Dates :
         LET number == InvoiceNumber(settings.invoicePrefix, getFiscalYear(now),
                                     loc[p].next)
         IN  /\ issued' = issued (+) SetToBag({number})
             /\ page' = [page EXCEPT ![p].invoiceNumber = number]
    /\ locks' = Unlock(p)
    /\ Finish(p, "ok")
    /\ UNCHANGED <<settings, items, stockLedger, invoices, purchases>>
    /\ UNCHANGED <<calc, authVars>>

\* getNextInvoiceNumber, from the update to the return; the caller's
\* .then(setInvoiceNumber) stores the number in the page.
GetNextInvoiceNumberWrite(p) ==
    /\ pc[p] = "inv_number_write"
    /\ \E now \in Dates :
         LET number == InvoiceNumber(settings.invoicePrefix, getFiscalYear(now),
                                     loc[p].next)
         IN  /\ settings' = [settings EXCEPT !.currentInvoiceNumber = loc[p].next]
             /\ issued' = issued (+) SetToBag({number})
             /\ page' = [page EXCEPT ![p].invoiceNumber = number]
    /\ locks' = Unlock(p)
    /\ Finish(p, "ok")
    /\ UNCHANGED <<items, stockLedger, invoices, purchases>>
    /\ UNCHANGED <<calc, authVars>>

\* Billing's mount effect.
BillingMount(p) ==
    /\ pc[p] = "idle"
    /\ page[p].invoiceNumber = NoNumber
    /\ GetNextInvoiceNumberRead(p)

\* Billing.handleNewInvoice: clears the form and asks for the next number.
HandleNewInvoice(p) ==
    /\ pc[p] = "idle"
    /\ page[p].invoiceNumber # NoNumber
    /\ GetNextInvoiceNumberRead(p)

GetNextPurchaseNumberRead(p) ==
    /\ settings.currentPurchaseNumber < InitialPurchaseNumber + MaxAlloc
    /\ CanLock({"settings"})
    /\ locks' = Lock(p, {"settings"})
    /\ loc' = [loc EXCEPT ![p] = [IdleLoc EXCEPT !.next = settings.currentPurchaseNumber + 1]]
    /\ pc' = [pc EXCEPT ![p] = "pur_number_write"]
    /\ UNCHANGED <<settings, items, stockLedger, invoices, purchases, page,
                   res, issued>>
    /\ UNCHANGED <<calc, authVars>>

GetNextPurchaseNumberWrite(p) ==
    /\ pc[p] = "pur_number_write"
    /\ LET number == PurchaseNumber(loc[p].next)
       IN  /\ settings' = [settings EXCEPT !.currentPurchaseNumber = loc[p].next]
           /\ issued' = issued (+) SetToBag({number})
           /\ page' = [page EXCEPT ![p].purchaseNumber = number]
    /\ locks' = Unlock(p)
    /\ Finish(p, "ok")
    /\ UNCHANGED <<items, stockLedger, invoices, purchases>>
    /\ UNCHANGED <<calc, authVars>>

\* Purchases' mount effect.
PurchasesMount(p) ==
    /\ pc[p] = "idle"
    /\ page[p].purchaseNumber = NoNumber
    /\ GetNextPurchaseNumberRead(p)

\* ------------------------------------------------------------ stock ledger
LedgerEntry(itemId, type, referenceId, quantityChange, previousStock) ==
    [itemId |-> itemId, type |-> type, referenceId |-> referenceId,
     quantityChange |-> quantityChange, previousStock |-> previousStock,
     newStock |-> previousStock + quantityChange]

\* The reference of a reversal: `CANCEL-${invoiceNumber}`.
CancelReference(invoiceNumber) == <<"CANCEL-">> \o invoiceNumber

\* Items a transaction has written, read off its pending ledger rows (every
\* items.update of the three coordinators is followed by a stockLedger.add).
Written(wLedger) == {wLedger[k].itemId : k \in 1..Len(wLedger)}

\* The `for (const item of items)` loop of a coordinator, run inside its
\* transaction from line k on: items.get (which sees the transaction's own
\* writes; a line whose item it does not find is passed over), the sale's
\* `newStock < 0` throw, items.update, stockLedger.add.
\* w is the transaction's view: [wItems, wLedger, failed].
RECURSIVE ApplyLines(_, _, _, _, _, _)
ApplyLines(lines, k, type, referenceId, sign, w) ==
    IF k > Len(lines) THEN w
    ELSE LET line == lines[k]
             entry == LedgerEntry(line.itemId, type, referenceId,
                                  sign * line.quantity, w.wItems[line.itemId])
         IN  IF line.itemId \notin Items
             THEN ApplyLines(lines, k + 1, type, referenceId, sign, w)
             ELSE IF type = "sale" /\ entry.newStock < 0
             THEN [w EXCEPT !.failed = TRUE]
             ELSE ApplyLines(lines, k + 1, type, referenceId, sign,
                      [w EXCEPT !.wItems[line.itemId] = entry.newStock,
                                !.wLedger = Append(@, entry)])

\* db.transaction('rw', tables, ...) runs its body: the tables are taken, the
\* loop works on the transaction's view of the store, and the outcome waits
\* for the commit or the abort.
RunTransactionUnlocked(p, tables, lines, type, referenceId, sign, label) ==
    /\ LET w == ApplyLines(lines, 1, type, referenceId, sign,
                           [wItems |-> items, wLedger |-> <<>>, failed |-> FALSE])
       IN  loc' = [loc EXCEPT ![p].wItems = w.wItems, ![p].wLedger = w.wLedger,
                              ![p].failed = w.failed]
    /\ pc' = [pc EXCEPT ![p] = label]
    /\ UNCHANGED locks

RunTransaction(p, tables, lines, type, referenceId, sign, label) ==
    /\ CanLock(tables)
    /\ locks' = Lock(p, tables)
    /\ LET w == ApplyLines(lines, 1, type, referenceId, sign,
                           [wItems |-> items, wLedger |-> <<>>, failed |-> FALSE])
       IN  loc' = [loc EXCEPT ![p].wItems = w.wItems, ![p].wLedger = w.wLedger,
                              ![p].failed = w.failed]
    /\ pc' = [pc EXCEPT ![p] = label]

\* The transaction commits: its writes reach the store together.
CommitStock(p) ==
    /\ items' = [i \in Items |-> IF i \in Written(loc[p].wLedger)
                                 THEN loc[p].wItems[i] ELSE items[i]]
    /\ stockLedger' = stockLedger \o loc[p].wLedger

\* The transaction aborts: nothing it wrote reaches the store, and the
\* handler's await rejects.
AbortKeepsWrites(p) ==
    /\ CommitStock(p)
    /\ locks' = Unlock(p)
    /\ Finish(p, "error")

Abort(p) ==
    /\ UNCHANGED <<items, stockLedger>>
    /\ locks' = Unlock(p)
    /\ Finish(p, "error")

\* --------------------------------------------------- Billing.handleSave
\* The stock pre-check loop (one db.items.get per line): an error toast and
\* return when a line asks for more than the stock read.
HandleSaveCheck(p, status, lines) ==
    /\ pc[p] = "idle"
    /\ page[p].invoiceNumber # NoNumber
    /\ Len(invoices) < MaxInvoices
    /\ Len(stockLedger) + Len(lines) <= MaxLedger
    /\ CanLock({"items"})
    /\ IF \E k \in 1..Len(lines) : lines[k].quantity > items[lines[k].itemId]
       THEN Finish(p, "error")
       ELSE /\ pc' = [pc EXCEPT ![p] = "save_add"]
            /\ loc' = [loc EXCEPT ![p].lines = lines, ![p].status = status,
                                  ![p].ref = page[p].invoiceNumber]
            /\ UNCHANGED res
    /\ UNCHANGED <<settings, items, stockLedger, invoices, purchases, locks,
                   page, issued>>
    /\ UNCHANGED <<calc, authVars>>

\* db.invoices.put keyed by the number: a record with the number is replaced.
HandleSavePut(p) ==
    /\ pc[p] = "save_add"
    /\ CanLock({"invoices"})
    /\ LET invoice == [invoiceNumber |-> loc[p].ref, items |-> loc[p].lines,
                       status |-> loc[p].status]
           same == {k \in 1..Len(invoices) : invoices[k].invoiceNumber = loc[p].ref}
       IN  invoices' = IF same = {} THEN Append(invoices, invoice)
                       ELSE [k \in 1..Len(invoices) |->
                                IF k \in same THEN invoice ELSE invoices[k]]
    /\ IF loc[p].status = "completed"
       THEN /\ pc' = [pc EXCEPT ![p] = "sale_begin"]
            /\ UNCHANGED <<loc, res>>
       ELSE Finish(p, "ok")
    /\ UNCHANGED <<settings, items, stockLedger, purchases, locks, page, issued>>
    /\ UNCHANGED <<calc, authVars>>

\* db.invoices.add(invoice); a draft save ends here.
HandleSaveAdd(p) ==
    /\ pc[p] = "save_add"
    /\ CanLock({"invoices"})
    /\ invoices' = Append(invoices, [invoiceNumber |-> loc[p].ref,
                                     items |-> loc[p].lines,
                                     status |-> loc[p].status])
    /\ IF loc[p].status = "completed"
       THEN /\ pc' = [pc EXCEPT ![p] = "sale_begin"]
            /\ UNCHANGED <<loc, res>>
       ELSE Finish(p, "ok")
    /\ UNCHANGED <<settings, items, stockLedger, purchases, locks, page, issued>>
    /\ UNCHANGED <<calc, authVars>>

\* updateStockAfterSale: the transaction body.
UpdateStockAfterSale(p) ==
    /\ pc[p] = "sale_begin"
    /\ RunTransaction(p, {"items", "stockLedger"}, loc[p].lines, "sale",
                      loc[p].ref, -1, "sale_end")
    /\ UNCHANGED <<settings, items, stockLedger, invoices, purchases, page,
                   res, issued>>
    /\ UNCHANGED <<calc, authVars>>

\* ... and its end: the throw of the loop aborts it, otherwise it commits and
\* handleSave shows the saved invoice.
UpdateStockAfterSaleEnd(p) ==
    /\ pc[p] = "sale_end"
    /\ IF loc[p].failed
       THEN Abort(p)
       ELSE /\ CommitStock(p)
            /\ locks' = Unlock(p)
            /\ Finish(p, "ok")
    /\ UNCHANGED <<settings, invoices, purchases, page, issued>>
    /\ UNCHANGED <<calc, authVars>>

\* --------------------------------------------------------- cancelInvoice
\* cancelInvoice(invoiceId) is called: db.invoices.get is requested.
CancelInvoice(p, invoiceId) ==
    /\ pc[p] = "idle"
    /\ pc' = [pc EXCEPT ![p] = "cancel_read"]
    /\ loc' = [loc EXCEPT ![p].invId = invoiceId]
    /\ UNCHANGED <<settings, items, stockLedger, invoices, purchases, locks,
                   page, res, issued>>
    /\ UNCHANGED <<calc, authVars>>

\* The read without the 'already cancelled' throw.
CancelInvoiceReadNoStatusCheck(p) ==
    /\ pc[p] = "cancel_read"
    /\ CanLock({"invoices"})
    /\ LET invoiceId == loc[p].invId
       IN  IF invoiceId > Len(invoices)
           THEN Finish(p, "error")
           ELSE /\ Len(stockLedger) + Len(invoices[invoiceId].items) <= MaxLedger
                /\ pc' = [pc EXCEPT ![p] = "cancel_begin"]
                /\ loc' = [loc EXCEPT ![p].status = invoices[invoiceId].status,
                                      ![p].lines = invoices[invoiceId].items,
                                      ![p].ref = invoices[invoiceId].invoiceNumber]
                /\ UNCHANGED res
    /\ UNCHANGED <<settings, items, stockLedger, invoices, purchases, locks,
                   page, issued>>
    /\ UNCHANGED <<calc, authVars>>

\* The get resolves, outside the transaction: 'Invoice not found' and
\* 'Invoice already cancelled' are thrown here.
CancelInvoiceRead(p) ==
    /\ pc[p] = "cancel_read"
    /\ CanLock({"invoices"})
    /\ LET invoiceId == loc[p].invId
       IN  IF invoiceId > Len(invoices)
           THEN Finish(p, "error")
           ELSE IF invoices[invoiceId].status = "cancelled"
           THEN Finish(p, "error")
           ELSE /\ Len(stockLedger) + Len(invoices[invoiceId].items) <= MaxLedger
                /\ pc' = [pc EXCEPT ![p] = "cancel_begin"]
                /\ loc' = [loc EXCEPT ![p].status = invoices[invoiceId].status,
                                      ![p].lines = invoices[invoiceId].items,
                                      ![p].ref = invoices[invoiceId].invoiceNumber]
                /\ UNCHANGED res
    /\ UNCHANGED <<settings, items, stockLedger, invoices, purchases, locks,
                   page, issued>>
    /\ UNCHANGED <<calc, authVars>>

\* The transaction without the call of reverseStockAfterSaleCancellation.
CancelInvoiceRunSkipReversal(p) ==
    /\ pc[p] = "cancel_begin"
    /\ RunTransaction(p, {"invoices", "items", "stockLedger"}, <<>>,
                      "adjustment", CancelReference(loc[p].ref), 1, "cancel_end")
    /\ UNCHANGED <<settings, items, stockLedger, invoices, purchases, page,
                   res, issued>>
    /\ UNCHANGED <<calc, authVars>>

\* The transaction with the reversal called whatever the status read.
CancelInvoiceRunAlwaysReverses(p) ==
    /\ pc[p] = "cancel_begin"
    /\ RunTransaction(p, {"invoices", "items", "stockLedger"}, loc[p].lines,
                      "adjustment", CancelReference(loc[p].ref), 1, "cancel_end")
    /\ UNCHANGED <<settings, items, stockLedger, invoices, purchases, page,
                   res, issued>>
    /\ UNCHANGED <<calc, authVars>>

\* The transaction on invoices, items and stockLedger; the stock is reversed
\* (reverseStockAfterSaleCancellation) only if the invoice read before was
\* completed.
CancelInvoiceRun(p) ==
    /\ pc[p] = "cancel_begin"
    /\ RunTransaction(p, {"invoices", "items", "stockLedger"},
                      IF loc[p].status = "completed" THEN loc[p].lines ELSE <<>>,
                      "adjustment", CancelReference(loc[p].ref), 1, "cancel_end")
    /\ UNCHANGED <<settings, items, stockLedger, invoices, purchases, page,
                   res, issued>>
    /\ UNCHANGED <<calc, authVars>>

\* db.invoices.update(invoiceId, {status: 'cancelled'}) and the commit.
CancelInvoiceEnd(p) ==
    /\ pc[p] = "cancel_end"
    /\ CommitStock(p)
    /\ invoices' = [invoices EXCEPT ![loc[p].invId].status = "cancelled"]
    /\ locks' = Unlock(p)
    /\ Finish(p, "ok")
    /\ UNCHANGED <<settings, purchases, page, issued>>
    /\ UNCHANGED <<calc, authVars>>

\* ------------------------------------------------- Purchases.handleSave
\* purchaseNumberExists: on a collision the page takes a fresh number and
\* the save is given up.
PurchaseSaveCheck(p, lines) ==
    /\ pc[p] = "idle"
    /\ page[p].purchaseNumber # NoNumber
    /\ CanLock({"purchases"})
    /\ IF \E k \in 1..Len(purchases) :
              purchases[k].purchaseNumber = page[p].purchaseNumber
       THEN GetNextPurchaseNumberRead(p)
       ELSE /\ Len(purchases) < MaxPurchases
            /\ Len(stockLedger) + Len(lines) <= MaxLedger
            /\ pc' = [pc EXCEPT ![p] = "purchase_add"]
            /\ loc' = [loc EXCEPT ![p].lines = lines,
                                  ![p].ref = page[p].purchaseNumber]
            /\ UNCHANGED <<settings, items, stockLedger, invoices, purchases,
                           locks, page, res, issued>>
    /\ UNCHANGED <<calc, authVars>>

PurchaseSaveAdd(p) ==
    /\ pc[p] = "purchase_add"
    /\ CanLock({"purchases"})
    /\ purchases' = Append(purchases, [purchaseNumber |-> loc[p].ref,
                                       items |-> loc[p].lines])
    /\ pc' = [pc EXCEPT ![p] = "purchase_begin"]
    /\ UNCHANGED <<settings, items, stockLedger, invoices, locks, loc, page,
                   res, issued>>
    /\ UNCHANGED <<calc, authVars>>

UpdateStockAfterPurchase(p) ==
    /\ pc[p] = "purchase_begin"
    /\ RunTransaction(p, {"items", "stockLedger"}, loc[p].lines, "purchase",
                      loc[p].ref, 1, "purchase_end")
    /\ UNCHANGED <<settings, items, stockLedger, invoices, purchases, page,
                   res, issued>>
    /\ UNCHANGED <<calc, authVars>>

\* The commit; handleSave then clears the form and awaits the next number.
UpdateStockAfterPurchaseEnd(p) ==
    /\ pc[p] = "purchase_end"
    /\ CommitStock(p)
    /\ locks' = Unlock(p)
    /\ pc' = [pc EXCEPT ![p] = "purchase_number"]
    /\ loc' = [loc EXCEPT ![p] = IdleLoc]
    /\ UNCHANGED <<settings, invoices, purchases, page, res, issued>>
    /\ UNCHANGED <<calc, authVars>>

PurchaseSaveNextNumber(p) ==
    /\ pc[p] = "purchase_number"
    /\ GetNextPurchaseNumberRead(p)

\* ------------------------------------------------------------- item edit
\* update-item (ItemFormDialog.handleSave): the form's currentStock, which
\* inventoryItemSchema accepts from 0 up, replaces the stored one.
UpdateItem(item, currentStock) ==
    /\ requirePermission(sessionStorage, "canManageInventory") = "ok"
    /\ CanLock({"items"})
    /\ items[item] # currentStock
    /\ items' = [items EXCEPT ![item] = currentStock]
    /\ ipc' = [channel |-> "update-item", token |-> sessionStorage, outcome |-> "ok"]
    /\ UNCHANGED <<settings, stockLedger, invoices, purchases, locks, pc, loc,
                   page, res, issued>>
    /\ UNCHANGED <<calc, activeSessions, clock, sessionStorage, minted>>

\* ------------------------------------------------------ storage failure
\* A request of an open transaction fails (quota, disk, closed database):
\* IndexedDB aborts the transaction and the handler's await rejects.
InTransaction(p) == pc[p] \in {"sale_end", "cancel_end", "purchase_end"}

StorageFailure(p) ==
    /\ InTransaction(p)
    /\ Abort(p)
    /\ UNCHANGED <<settings, invoices, purchases, page, issued>>
    /\ UNCHANGED <<calc, authVars>>

\* The page is closed or reloaded between two awaits of a handler.
Crash(p) ==
    /\ pc[p] \in {"save_add", "sale_begin", "cancel_read", "cancel_begin", "purchase_add",
                  "purchase_begin", "purchase_number"}
    /\ Finish(p, "error")
    /\ UNCHANGED <<settings, items, stockLedger, invoices, purchases, locks,
                   page, issued>>
    /\ UNCHANGED <<calc, authVars>>

\* ------------------------------------------------------------ tax calculator
\* An amount of the library is a whole number of paise.  A JavaScript number
\* holds a decimal amount only up to its binary representation error, so
\* Math.round of the double that stands for the exact value n / d gives the
\* nearest integer when n / d is not half way between two integers, and
\* either neighbour when it is: that error decides the side.
GstRates == {0, 5, 12, 18, 28}

IsTie(n, d) == (2 * n) % (2 * d) = d

\* Math.round of exactly n / d: the nearest integer, a half going up.
MathRound(n, d) == (2 * n + d) \div (2 * d)

\* Math.round of the double computed for n / d.
MathRoundOfDouble(n, d) ==
    IF IsTie(n, d) THEN {n \div d, n \div d + 1} ELSE {MathRound(n, d)}

\* The value of a rounding that has one outcome only.
TheValue(outcomes) == CHOOSE v \in outcomes : TRUE

roundToNearestRupeeUnrounded(value) == value

\* value is a whole number of paise, and a double holds x.5 rupees exactly;
\* the result is in paise too.
roundToNearestRupee(value) == 100 * MathRound(value, 100)

\* Math.round(value * 100) / 100 for value = n / d paise: the outcomes.
roundToTwoDecimals(n, d) == MathRoundOfDouble(n, d)

roundGstAmount(n, d) == roundToTwoDecimals(n, d)

roundCurrency(n, d) == MathRoundOfDouble(n, d)

\* The outcomes of calculateGstBreakdown; gstAmount and halfGst are its
\* locals, kept in the record next to the fields it returns.
calculateGstBreakdownIgstAlways(taxableAmount, gstPercent, isInterState) ==
    UNION {
      { LET cgst == IF isInterState THEN 0
                    ELSE IF 2 * halfGst # gstAmount THEN gstAmount - halfGst
                    ELSE halfGst
            sgst == IF isInterState THEN 0 ELSE halfGst
            igst == gstAmount
        IN  [taxableAmount |-> taxableAmount, gstAmount |-> gstAmount,
             halfGst |-> halfGst, cgst |-> cgst, sgst |-> sgst, igst |-> igst,
             totalGst |-> cgst + sgst + igst,
             totalAmount |-> taxableAmount + cgst + sgst + igst]
        : halfGst \in roundGstAmount(gstAmount, 2) }
      : gstAmount \in roundGstAmount(taxableAmount * gstPercent, 100) }

calculateGstBreakdown(taxableAmount, gstPercent, isInterState) ==
    UNION {
      { LET sgst == IF isInterState THEN 0 ELSE halfGst
            cgst == IF isInterState THEN 0
                    ELSE IF TheValue(roundToTwoDecimals(halfGst + sgst, 1)) # gstAmount
                         THEN TheValue(roundToTwoDecimals(gstAmount - sgst, 1))
                         ELSE halfGst
            igst == IF isInterState THEN gstAmount ELSE 0
            totalGst == TheValue(roundToTwoDecimals(cgst + sgst + igst, 1))
        IN  [taxableAmount |-> taxableAmount, gstAmount |-> gstAmount,
             halfGst |-> halfGst, cgst |-> cgst, sgst |-> sgst, igst |-> igst,
             totalGst |-> totalGst,
             totalAmount |-> TheValue(roundToTwoDecimals(taxableAmount + totalGst, 1))]
        : halfGst \in IF isInterState THEN {0} ELSE roundGstAmount(gstAmount, 2) }
      : gstAmount \in roundGstAmount(taxableAmount * gstPercent, 100) }

\* The outcomes of calculateGst of lib/einvoice.ts.
calculateGst(taxableAmount, gstPercent, isIgst) ==
    UNION {
      { [taxableAmount |-> taxableAmount, gstAmount |-> gstAmount,
         halfGst |-> halfGst,
         cgst |-> IF isIgst THEN 0 ELSE halfGst,
         sgst |-> IF isIgst THEN 0 ELSE halfGst,
         igst |-> IF isIgst THEN gstAmount ELSE 0]
        : halfGst \in IF isIgst THEN {0} ELSE roundCurrency(gstAmount, 2) }
      : gstAmount \in roundCurrency(taxableAmount * gstPercent, 100) }

\* The outcomes of calculateLineItem, without the per-unit fields it
\* computes for display.
calculateLineItem(quantity, unitPrice, discountPerUnit, gstPercent, isInterState) ==
    LET netUnitPrice == TheValue(roundToTwoDecimals(unitPrice - discountPerUnit, 1))
        taxableAmount == TheValue(roundToTwoDecimals(netUnitPrice * quantity, 1))
    IN  { [quantity |-> quantity, unitPrice |-> unitPrice,
           discount |-> discountPerUnit, taxableAmount |-> taxableAmount,
           gstPercent |-> gstPercent,
           totalCgst |-> gstBreakdown.cgst, totalSgst |-> gstBreakdown.sgst,
           totalIgst |-> gstBreakdown.igst, lineTotal |-> gstBreakdown.totalAmount]
          : gstBreakdown \in calculateGstBreakdown(taxableAmount, gstPercent, isInterState) }

RECURSIVE Sum(_)
Sum(amounts) ==
    IF amounts = <<>> THEN 0 ELSE Head(amounts) + Sum(Tail(amounts))

calculateInvoiceTotals(lineItems) ==
    LET subtotal == Sum([k \in DOMAIN lineItems |-> lineItems[k].unitPrice * lineItems[k].quantity])
        totalDiscount == Sum([k \in DOMAIN lineItems |-> lineItems[k].discount * lineItems[k].quantity])
        taxableValue == Sum([k \in DOMAIN lineItems |-> lineItems[k].taxableAmount])
        totalCgst == Sum([k \in DOMAIN lineItems |-> lineItems[k].totalCgst])
        totalSgst == Sum([k \in DOMAIN lineItems |-> lineItems[k].totalSgst])
        totalIgst == Sum([k \in DOMAIN lineItems |-> lineItems[k].totalIgst])
        totalTax == TheValue(roundToTwoDecimals(totalCgst + totalSgst + totalIgst, 1))
        rawTotal == TheValue(roundToTwoDecimals(taxableValue + totalTax, 1))
        grandTotal == roundToNearestRupee(rawTotal)
        roundOff == TheValue(roundToTwoDecimals(grandTotal - rawTotal, 1))
    IN  [subtotal |-> TheValue(roundToTwoDecimals(subtotal, 1)),
         totalDiscount |-> TheValue(roundToTwoDecimals(totalDiscount, 1)),
         taxableValue |-> TheValue(roundToTwoDecimals(taxableValue, 1)),
         totalCgst |-> TheValue(roundToTwoDecimals(totalCgst, 1)),
         totalSgst |-> TheValue(roundToTwoDecimals(totalSgst, 1)),
         totalIgst |-> TheValue(roundToTwoDecimals(totalIgst, 1)),
         totalTax |-> totalTax, roundOff |-> roundOff, grandTotal |-> grandTotal]

\* The billing page keeps its amounts unrounded: half of a hundredth of a
\* paisa is the finest step they take, and the page's amounts are counted in
\* that step.
PartsPerPaisa == 2 * 100

PartsPerRupee == 100 * PartsPerPaisa

\* One line of the page's form after addLineItem / updateLineItem.
updateLineItem(line, isIgst) ==
    LET taxableAmount == (line.unitPrice - line.discount) * line.quantity * PartsPerPaisa
        gstAmount == (taxableAmount * line.gstPercent) \div 100
    IN  [quantity |-> line.quantity, price |-> line.unitPrice * PartsPerPaisa,
         discount |-> line.discount * PartsPerPaisa, gstPercent |-> line.gstPercent,
         cgst |-> IF isIgst THEN 0 ELSE gstAmount \div 2,
         sgst |-> IF isIgst THEN 0 ELSE gstAmount \div 2,
         igst |-> IF isIgst THEN gstAmount ELSE 0,
         taxableAmount |-> taxableAmount,
         totalAmount |-> taxableAmount + gstAmount]

\* The totals the page computes on every render and handleSave stores; the
\* grand total is Math.round of an unrounded double.
BillingTotals(lineItems) ==
    LET subtotal == Sum([k \in DOMAIN lineItems |-> lineItems[k].taxableAmount])
        totalCgst == Sum([k \in DOMAIN lineItems |-> lineItems[k].cgst * lineItems[k].quantity])
        totalSgst == Sum([k \in DOMAIN lineItems |-> lineItems[k].sgst * lineItems[k].quantity])
        totalIgst == Sum([k \in DOMAIN lineItems |-> lineItems[k].igst * lineItems[k].quantity])
        totalDiscount == Sum([k \in DOMAIN lineItems |-> lineItems[k].discount * lineItems[k].quantity])
        rawTotal == subtotal + totalCgst + totalSgst + totalIgst
    IN  { [subtotal |-> subtotal, totalCgst |-> totalCgst, totalSgst |-> totalSgst,
           totalIgst |-> totalIgst, totalDiscount |-> totalDiscount,
           grandTotal |-> rupees * PartsPerRupee,
           roundOff |-> rupees * PartsPerRupee - rawTotal]
          : rupees \in MathRoundOfDouble(rawTotal, PartsPerRupee) }

\* The calculator's callers: each applies one routine to the drawn arguments.
Calculated(fn, result) ==
    /\ calc.fn = "none"
    /\ calc' = [calc EXCEPT !.fn = fn, !.result = result]
    /\ UNCHANGED <<settings, items, stockLedger, invoices, purchases, locks,
                   pc, loc, page, res, issued, authVars>>

CallCalculateGstBreakdown ==
    /\ calc.args.lines = <<>>
    /\ \E r \in calculateGstBreakdown(calc.args.taxableAmount,
                                      calc.args.gstPercent, calc.args.isInterState) :
          Calculated("calculateGstBreakdown", r)

CallCalculateGst ==
    /\ calc.args.lines = <<>>
    /\ \E r \in calculateGst(calc.args.taxableAmount,
                             calc.args.gstPercent, calc.args.isInterState) :
          Calculated("calculateGst", r)

\* The sequences of one outcome per line.
RECURSIVE LineItemCalculations(_, _)
LineItemCalculations(lines, isInterState) ==
    IF lines = <<>> THEN {<<>>}
    ELSE { <<first>> \o rest :
             first \in calculateLineItem(Head(lines).quantity, Head(lines).unitPrice,
                                         Head(lines).discount, Head(lines).gstPercent,
                                         isInterState),
             rest \in LineItemCalculations(Tail(lines), isInterState) }

CallCalculateInvoiceTotals ==
    /\ calc.args.lines # <<>>
    /\ \E lineItems \in LineItemCalculations(calc.args.lines, calc.args.isInterState) :
          Calculated("calculateInvoiceTotals", calculateInvoiceTotals(lineItems))

BillingRender ==
    /\ calc.args.lines # <<>>
    /\ \E r \in BillingTotals([k \in 1..Len(calc.args.lines) |->
                                 updateLineItem(calc.args.lines[k], calc.args.isInterState)]) :
          Calculated("Billing", r)

\* ---------------------------------------------------------- specifications
\* Number allocation alone: the pages mount and ask for new documents.
NextSeq ==
    \E p \in Procs :
        \/ BillingMount(p)
        \/ HandleNewInvoice(p)
        \/ GetNextInvoiceNumberWrite(p)
        \/ PurchasesMount(p)
        \/ GetNextPurchaseNumberWrite(p)

SpecSeq == Init /\ [][NextSeq]_vars

\* The app is closed and started again (or the window reloaded): the React
\* state of the page is gone, a transaction it had open is aborted, and the
\* database is as the last commit left it.
Restart(p) ==
    /\ pc[p] # "idle" \/ page[p].invoiceNumber # NoNumber
                      \/ page[p].purchaseNumber # NoNumber
    /\ pc' = [pc EXCEPT ![p] = "idle"]
    /\ loc' = [loc EXCEPT ![p] = IdleLoc]
    /\ res' = [res EXCEPT ![p] = "none"]
    /\ page' = [page EXCEPT ![p] = [invoiceNumber |-> NoNumber,
                                    purchaseNumber |-> NoNumber]]
    /\ locks' = Unlock(p)
    /\ UNCHANGED <<settings, items, stockLedger, invoices, purchases, issued>>
    /\ UNCHANGED <<calc, authVars>>

\* Number allocation across restarts.
NextRestart ==
    \/ NextSeq
    \/ \E p \in Procs : Restart(p)

SpecRestart == Init /\ [][NextRestart]_vars

\* The state once every page has run its mount effect.
InitMounted ==
    /\ settings = [invoicePrefix |-> "SE",
                   currentInvoiceNumber |-> InitialInvoiceNumber + NumProcs,
                   currentPurchaseNumber |-> InitialPurchaseNumber + NumProcs]
    /\ items = [i \in Items |-> InitialStock]
    /\ stockLedger = <<>>
    /\ invoices = <<>>
    /\ purchases = <<>>
    /\ locks = [t \in Tables |-> NoProc]
    /\ pc = [p \in Procs |-> "idle"]
    /\ loc = [p \in Procs |-> IdleLoc]
    /\ page = [p \in Procs |->
                 [invoiceNumber |->
                      InvoiceNumber("SE", getFiscalYear([year |-> 2025, month |-> 3]),
                                    InitialInvoiceNumber + p),
                  purchaseNumber |-> PurchaseNumber(InitialPurchaseNumber + p)]]
    /\ res = [p \in Procs |-> "none"]
    /\ issued = EmptyBag
    /\ calc = NoCalculation
    /\ NoSessions

\* Billing pages saving invoices, with the failures a save can meet.
NextSale ==
    \E p \in Procs :
        \/ \E status \in {"draft", "completed"}, lines \in Batches(SaleQuantities) :
              HandleSaveCheck(p, status, lines)
        \/ HandleSaveAdd(p)
        \/ UpdateStockAfterSale(p)
        \/ UpdateStockAfterSaleEnd(p)
        \/ StorageFailure(p)
        \/ Crash(p)

SpecSale == InitMounted /\ [][NextSale]_vars

\* Completed sales of any typed quantity, and their cancellation.
NextReturn ==
    \E p \in Procs :
        \/ \E lines \in Batches(SaleQuantities) : HandleSaveCheck(p, "completed", lines)
        \/ HandleSaveAdd(p)
        \/ UpdateStockAfterSale(p)
        \/ UpdateStockAfterSaleEnd(p)
        \/ \E invoiceId \in 1..MaxInvoices : CancelInvoice(p, invoiceId)
        \/ CancelInvoiceRead(p)
        \/ CancelInvoiceRun(p)
        \/ CancelInvoiceEnd(p)

SpecReturn == InitMounted /\ [][NextReturn]_vars

\* Draft and completed saves, and cancellation: the life of an invoice.
NextStatus ==
    \E p \in Procs :
        \/ \E status \in {"draft", "completed"}, lines \in Batches(FormQuantities) :
              HandleSaveCheck(p, status, lines)
        \/ HandleSaveAdd(p)
        \/ UpdateStockAfterSale(p)
        \/ UpdateStockAfterSaleEnd(p)
        \/ \E invoiceId \in 1..MaxInvoices : CancelInvoice(p, invoiceId)
        \/ CancelInvoiceRead(p)
        \/ CancelInvoiceRun(p)
        \/ CancelInvoiceEnd(p)

SpecStatus == InitMounted /\ [][NextStatus]_vars

\* The three stock coordinators side by side: sales, purchases, reversals.
NextLedger ==
    \E p \in Procs :
        \/ \E lines \in Batches(FormQuantities) : HandleSaveCheck(p, "completed", lines)
        \/ HandleSaveAdd(p)
        \/ UpdateStockAfterSale(p)
        \/ UpdateStockAfterSaleEnd(p)
        \/ \E invoiceId \in 1..MaxInvoices : CancelInvoice(p, invoiceId)
        \/ CancelInvoiceRead(p)
        \/ CancelInvoiceRun(p)
        \/ CancelInvoiceEnd(p)
        \/ \E lines \in Batches(PurchaseQuantities) : PurchaseSaveCheck(p, lines)
        \/ PurchaseSaveAdd(p)
        \/ UpdateStockAfterPurchase(p)
        \/ UpdateStockAfterPurchaseEnd(p)
        \/ PurchaseSaveNextNumber(p)
        \/ GetNextPurchaseNumberWrite(p)

SpecLedger == InitMounted /\ [][NextLedger]_vars

\* exportDatabase run on the store the mounted pages start from: the file a
\* user keeps as a backup.
FirstBackup ==
    [settings |-> [invoicePrefix |-> "SE",
                   currentInvoiceNumber |-> InitialInvoiceNumber + NumProcs,
                   currentPurchaseNumber |-> InitialPurchaseNumber + NumProcs],
     items |-> [i \in Items |-> InitialStock],
     stockLedger |-> <<>>,
     invoices |-> <<>>,
     purchases |-> <<>>]

\* importDatabase(jsonStr): one rw transaction on every table that clears
\* each table and bulk-adds the rows of the file.
ImportDatabase(p, data) ==
    /\ pc[p] = "idle"
    /\ CanLock(Tables)
    /\ <<settings, items, stockLedger, invoices, purchases>> #
           <<data.settings, data.items, data.stockLedger, data.invoices,
             data.purchases>>
    /\ settings' = data.settings
    /\ items' = data.items
    /\ stockLedger' = data.stockLedger
    /\ invoices' = data.invoices
    /\ purchases' = data.purchases
    /\ res' = [res EXCEPT ![p] = "ok"]
    /\ UNCHANGED <<locks, pc, loc, page, issued>>
    /\ UNCHANGED <<calc, authVars>>

\* Sales, and the import of a backup file.
NextImport ==
    \E p \in Procs :
        \/ \E lines \in Batches(FormQuantities) : HandleSaveCheck(p, "completed", lines)
        \/ HandleSaveAdd(p)
        \/ UpdateStockAfterSale(p)
        \/ UpdateStockAfterSaleEnd(p)
        \/ ImportDatabase(p, FirstBackup)

SpecImport == InitMounted /\ [][NextImport]_vars

\* The tax calculator applied to every drawn argument list.
SplitInputs ==
    {[NoArguments EXCEPT !.taxableAmount = t, !.gstPercent = r, !.isInterState = s] :
        t \in 0..MaxTaxablePaise, r \in GstRates, s \in BOOLEAN}

LineInputs ==
    {l \in [quantity : FormQuantities, unitPrice : {k * PriceStepPaise : k \in 0..MaxPriceSteps},
            discount : 0..MaxDiscountPaise, gstPercent : GstRates] :
        l.discount <= l.unitPrice}

TotalsInputs ==
    {[NoArguments EXCEPT !.isInterState = s, !.lines = l] :
        l \in SeqsOver(LineInputs, MaxLines) \ {<<>>}, s \in BOOLEAN}

InitTax ==
    /\ settings = [invoicePrefix |-> "SE",
                   currentInvoiceNumber |-> InitialInvoiceNumber,
                   currentPurchaseNumber |-> InitialPurchaseNumber]
    /\ items = [i \in Items |-> InitialStock]
    /\ stockLedger = <<>>
    /\ invoices = <<>>
    /\ purchases = <<>>
    /\ locks = [t \in Tables |-> NoProc]
    /\ pc = [p \in Procs |-> "idle"]
    /\ loc = [p \in Procs |-> IdleLoc]
    /\ page = [p \in Procs |-> [invoiceNumber |-> NoNumber, purchaseNumber |-> NoNumber]]
    /\ res = [p \in Procs |-> "none"]
    /\ issued = EmptyBag
    /\ calc \in {[NoCalculation EXCEPT !.args = a] : a \in SplitInputs \cup TotalsInputs}
    /\ NoSessions

NextTax ==
    \/ CallCalculateGstBreakdown
    \/ CallCalculateGst
    \/ CallCalculateInvoiceTotals
    \/ BillingRender

SpecTax == InitTax /\ [][NextTax]_vars

\* The clock readings getFiscalYear is applied to: the first, a middle and
\* the last day of every month (getMonth() is 0-based) of the years around
\* the test's boundary and of the century's last year.
DaysInMonth == <<31, 28, 31, 30, 31, 30, 31, 31, 30, 31, 30, 31>>

ClockReadings ==
    {[year |-> y, month |-> m, day |-> d] :
        y \in {2024, 2025, 2026, 2099}, m \in 0..11, d \in 1..31}

FiscalDates == {now \in ClockReadings : now.day \in {1, 15, DaysInMonth[now.month + 1]}}

InitFiscal ==
    /\ settings = [invoicePrefix |-> "SE",
                   currentInvoiceNumber |-> InitialInvoiceNumber,
                   currentPurchaseNumber |-> InitialPurchaseNumber]
    /\ items = [i \in Items |-> InitialStock]
    /\ stockLedger = <<>>
    /\ invoices = <<>>
    /\ purchases = <<>>
    /\ locks = [t \in Tables |-> NoProc]
    /\ pc = [p \in Procs |-> "idle"]
    /\ loc = [p \in Procs |-> IdleLoc]
    /\ page = [p \in Procs |-> [invoiceNumber |-> NoNumber, purchaseNumber |-> NoNumber]]
    /\ res = [p \in Procs |-> "none"]
    /\ issued = EmptyBag
    /\ calc \in {[NoCalculation EXCEPT !.args.now = now] : now \in FiscalDates}
    /\ NoSessions

CallGetFiscalYear == Calculated("getFiscalYear", getFiscalYear(calc.args.now))

NextFiscal == CallGetFiscalYear

SpecFiscal == InitFiscal /\ [][NextFiscal]_vars

\* Settings.handleSave: db.settings.update with the business fields and the
\* invoice prefix of the form, and with no other field.
Prefixes == {"SE", "INV"}

SettingsHandleSave(invoicePrefix) ==
    /\ CanLock({"settings"})
    /\ settings.invoicePrefix # invoicePrefix
    /\ settings' = [settings EXCEPT !.invoicePrefix = invoicePrefix]
    /\ UNCHANGED <<items, stockLedger, invoices, purchases, locks, pc, loc,
                   page, res, issued>>
    /\ UNCHANGED <<calc, authVars>>

\* Every operation that changes documents, stock or items, tried under each
\* session the window may hold: none, or one of any role.  The window's user
\* starts one operation at a time.
InitPermission ==
    /\ settings = [invoicePrefix |-> "SE",
                   currentInvoiceNumber |-> InitialInvoiceNumber + NumProcs,
                   currentPurchaseNumber |-> InitialPurchaseNumber + NumProcs]
    /\ items = [i \in Items |-> InitialStock]
    /\ stockLedger = <<>>
    /\ invoices = <<>>
    /\ purchases = <<>>
    /\ locks = [t \in Tables |-> NoProc]
    /\ pc = [p \in Procs |-> "idle"]
    /\ loc = [p \in Procs |-> IdleLoc]
    /\ page = [p \in Procs |->
                 [invoiceNumber |->
                      InvoiceNumber("SE", getFiscalYear([year |-> 2025, month |-> 3]),
                                    InitialInvoiceNumber + p),
                  purchaseNumber |-> PurchaseNumber(InitialPurchaseNumber + p)]]
    /\ res = [p \in Procs |-> "none"]
    /\ issued = EmptyBag
    /\ calc = NoCalculation
    /\ NoSessions \/ \E role \in Roles : LoggedIn(role)

\* No page but p is in the middle of an operation.
OneAtATime(p) == \A q \in Procs \ {p} : pc[q] = "idle"

NextPermission ==
    \/ \E p \in Procs :
          \/ \E lines \in Batches(1..1) :
                OneAtATime(p) /\ HandleSaveCheck(p, "completed", lines)
          \/ OneAtATime(p) /\ HandleSaveAdd(p)
          \/ OneAtATime(p) /\ UpdateStockAfterSale(p)
          \/ OneAtATime(p) /\ UpdateStockAfterSaleEnd(p)
          \/ \E invoiceId \in 1..MaxInvoices :
                OneAtATime(p) /\ CancelInvoice(p, invoiceId)
          \/ OneAtATime(p) /\ CancelInvoiceRead(p)
          \/ OneAtATime(p) /\ CancelInvoiceRun(p)
          \/ OneAtATime(p) /\ CancelInvoiceEnd(p)
          \/ \E lines \in Batches(1..1) :
                OneAtATime(p) /\ PurchaseSaveCheck(p, lines)
          \/ OneAtATime(p) /\ PurchaseSaveAdd(p)
          \/ OneAtATime(p) /\ UpdateStockAfterPurchase(p)
          \/ OneAtATime(p) /\ UpdateStockAfterPurchaseEnd(p)
          \/ OneAtATime(p) /\ PurchaseSaveNextNumber(p)
          \/ OneAtATime(p) /\ GetNextPurchaseNumberWrite(p)
    \/ \E item \in Items, currentStock \in 0..InitialStock :
          OneAtATime(NoProc) /\ UpdateItem(item, currentStock)

SpecPermission == InitPermission /\ [][NextPermission]_vars

\* Allocations next to everything else that writes to the store: saves,
\* cancellations, settings edits and the import of a backup file, one
\* operation at a time and MaxAlloc allocations at most.
NextCounter ==
    \/ \E p \in Procs :
          \/ /\ OneAtATime(p)
             /\ BagCardinality(issued) < MaxAlloc
             /\ HandleNewInvoice(p)
          \/ OneAtATime(p) /\ GetNextInvoiceNumberWrite(p)
          \/ \E lines \in {b \in Batches(1..1) : Len(b) = 1 /\ b[1].itemId = 1} :
                OneAtATime(p) /\ HandleSaveCheck(p, "completed", lines)
          \/ OneAtATime(p) /\ HandleSaveAdd(p)
          \/ OneAtATime(p) /\ UpdateStockAfterSale(p)
          \/ OneAtATime(p) /\ UpdateStockAfterSaleEnd(p)
          \/ \E invoiceId \in 1..MaxInvoices :
                OneAtATime(p) /\ CancelInvoice(p, invoiceId)
          \/ OneAtATime(p) /\ CancelInvoiceRead(p)
          \/ OneAtATime(p) /\ CancelInvoiceRun(p)
          \/ OneAtATime(p) /\ CancelInvoiceEnd(p)
          \/ OneAtATime(p) /\ ImportDatabase(p, FirstBackup)
    \/ \E invoicePrefix \in Prefixes :
          OneAtATime(NoProc) /\ SettingsHandleSave(invoicePrefix)

SpecCounter == InitMounted /\ [][NextCounter]_vars

\* The lines the Billing form can hold: the quantity and discount inputs
\* have a minimum (1 and 0) and the discount has no maximum, whatever the
\* price of the item.
FormLines ==
    [quantity : FormQuantities, unitPrice : {k * PriceStepPaise : k \in 0..MaxPriceSteps},
     discount : 0..MaxDiscountPaise, gstPercent : GstRates]

InitForm ==
    /\ settings = [invoicePrefix |-> "SE",
                   currentInvoiceNumber |-> InitialInvoiceNumber,
                   currentPurchaseNumber |-> InitialPurchaseNumber]
    /\ items = [i \in Items |-> InitialStock]
    /\ stockLedger = <<>>
    /\ invoices = <<>>
    /\ purchases = <<>>
    /\ locks = [t \in Tables |-> NoProc]
    /\ pc = [p \in Procs |-> "idle"]
    /\ loc = [p \in Procs |-> IdleLoc]
    /\ page = [p \in Procs |-> [invoiceNumber |-> NoNumber, purchaseNumber |-> NoNumber]]
    /\ res = [p \in Procs |-> "none"]
    /\ issued = EmptyBag
    /\ calc \in {[NoCalculation EXCEPT !.args.lines = <<line>>, !.args.isInterState = s] :
                    line \in FormLines, s \in BOOLEAN}
    /\ NoSessions

\* The user edits a field of the line: the page stores what updateLineItem
\* makes of it, and handleSave puts the page's lines into the invoice as
\* they are.
BillingUpdateLineItem ==
    Calculated("updateLineItem",
               updateLineItem(calc.args.lines[1], calc.args.isInterState))

NextForm == BillingUpdateLineItem

SpecForm == InitForm /\ [][NextForm]_vars

\* validateStockForSale: one db.items.get per line, each compared with the
\* stock the store holds; the lines it has an error for.
validateStockForSale(lines) ==
    LET errors == {k \in 1..Len(lines) :
                      \/ lines[k].itemId \notin Items
                      \/ items[lines[k].itemId] < lines[k].quantity}
    IN  [valid |-> errors = {}, errors |-> errors]

\* updateStockAfterSale on the same lines: whether its loop throws.
updateStockAfterSale(lines) ==
    LET w == ApplyLines(lines, 1, "sale", NoNumber, -1,
                        [wItems |-> items, wLedger |-> <<>>, failed |-> FALSE])
    IN  [completed |-> ~w.failed]

\* The batches a caller may hand to the two: up to MaxLines lines, an item
\* on more than one of them, and items that are not in the store.
NoSuchItem == NumItems + 1

SaleLines ==
    SeqsOver([itemId : Items \cup {NoSuchItem}, quantity : FormQuantities], MaxLines)
        \ {<<>>}

InitDryRun ==
    /\ settings = [invoicePrefix |-> "SE",
                   currentInvoiceNumber |-> InitialInvoiceNumber,
                   currentPurchaseNumber |-> InitialPurchaseNumber]
    /\ items \in [Items -> 0..MaxQty]
    /\ stockLedger = <<>>
    /\ invoices = <<>>
    /\ purchases = <<>>
    /\ locks = [t \in Tables |-> NoProc]
    /\ pc = [p \in Procs |-> "idle"]
    /\ loc = [p \in Procs |-> IdleLoc]
    /\ page = [p \in Procs |-> [invoiceNumber |-> NoNumber, purchaseNumber |-> NoNumber]]
    /\ res = [p \in Procs |-> "none"]
    /\ issued = EmptyBag
    /\ calc \in {[NoCalculation EXCEPT !.args.lines = lines] : lines \in SaleLines}
    /\ NoSessions

CallValidateStockForSale ==
    Calculated("validateStockForSale", validateStockForSale(calc.args.lines))

CallUpdateStockAfterSale ==
    Calculated("updateStockAfterSale", updateStockAfterSale(calc.args.lines))

NextDryRun ==
    \/ CallValidateStockForSale
    \/ CallUpdateStockAfterSale

SpecDryRun == InitDryRun /\ [][NextDryRun]_vars

\* The Billing pages from their mount on: numbers are handed out at the
\* mount and at New Invoice, drafts and invoices are saved, saves fail.
NextBilling ==
    \E p \in Procs :
        \/ BillingMount(p)
        \/ HandleNewInvoice(p)
        \/ GetNextInvoiceNumberWrite(p)
        \/ \E status \in {"draft", "completed"}, lines \in Batches(1..1) :
              HandleSaveCheck(p, status, lines)
        \/ HandleSaveAdd(p)
        \/ UpdateStockAfterSale(p)
        \/ UpdateStockAfterSaleEnd(p)
        \/ StorageFailure(p)

SpecBilling == Init /\ [][NextBilling]_vars

\* The main process: logins, logouts and calls of the handlers under every
\* token, those that name no session included, while time passes.
NextSession ==
    \/ \E role \in Roles : AuthLogin(role)
    \/ \E token \in Tokens : AuthLogout(token)
    \/ \E channel \in Channels, token \in Tokens : IpcHandle(channel, token)
    \/ \E item \in Items, currentStock \in 0..InitialStock :
          UpdateItem(item, currentStock)
    \/ Tick

SpecSession == Init /\ [][NextSession]_vars

\* The whole program.
Next ==
    \/ \E invoicePrefix \in Prefixes : SettingsHandleSave(invoicePrefix)
    \/ NextSession
    \/ NextTax
    \/ NextForm
    \/ NextDryRun
    \/ NextBilling
    \/ NextFiscal
    \/ NextSeq
    \/ NextSale
    \/ NextReturn
    \/ NextLedger
    \/ \E p \in Procs : Restart(p) \/ ImportDatabase(p, FirstBackup)

Spec == Init /\ [][Next]_vars

\* ------------------------------------------------------------------ claims
\* C1: whatever the interleaving of the allocators' reads and writes and
\* whatever the clock reads, no two allocation calls return the same sequence
\* number: every number was returned once, and two different numbers of one
\* series never carry the same sequence.
C1_UniqueSequenceNumbers ==
    \A n \in BagToSet(issued) :
        /\ CopiesIn(n, issued) = 1
        /\ \A m \in BagToSet(issued) :
              (m # n /\ Len(m) = Len(n)) => SequenceOf(m) # SequenceOf(n)

\* Invoice numbers returned on both sides of a fiscal year while another
\* allocation is in flight.
C1_Witness ==
    /\ \E n, m \in BagToSet(issued) : Len(n) = 3 /\ Len(m) = 3 /\ n[2] # m[2]
    /\ \E p \in Procs : pc[p] \in {"inv_number_write", "pur_number_write"}

\* A line of p's sale batch asks for more than the stock in the store.
SaleShort(p) ==
    \E k \in 1..Len(loc[p].lines) :
        loc[p].lines[k].quantity > items[loc[p].lines[k].itemId]

\* C2: when updateStockAfterSale ends, it ends with an error if a line asks
\* for more than the item's current stock, and whenever it ends with an error
\* (that throw, or a failure part-way through) every currentStock and the
\* ledger are as before the call; otherwise every line got its ledger entry.
C2_SaleBatchAllOrNothing ==
    [][\A p \in Procs :
          (pc[p] = "sale_end" /\ pc'[p] # "sale_end") =>
              /\ SaleShort(p) => res'[p] = "error"
              /\ res'[p] = "error" => UNCHANGED <<items, stockLedger>>
              /\ res'[p] # "error" =>
                    Len(stockLedger') = Len(stockLedger) + Len(loc[p].lines)]_vars

\* A sale transaction that wrote a line and then met a line it cannot serve.
C2_Witness ==
    \E p \in Procs :
        pc[p] = "sale_end" /\ loc[p].failed /\ Len(loc[p].wLedger) >= 1

\* C3: every item's currentStock is greater than or equal to zero.
C3_StockNeverNegative == \A i \in Items : items[i] >= 0

\* Invoice k has its stock change in the ledger: a sale entry per line.
StockApplied(k) ==
    \A j \in 1..Len(invoices[k].items) :
        \E e \in 1..Len(stockLedger) :
            /\ stockLedger[e].type = "sale"
            /\ stockLedger[e].referenceId = invoices[k].invoiceNumber
            /\ stockLedger[e].itemId = invoices[k].items[j].itemId
            /\ stockLedger[e].quantityChange = -invoices[k].items[j].quantity

\* C4: once no save is under way, a completed invoice is in the store if and
\* only if its stock change and its ledger entries have been applied.
C4_CompletedIffStockApplied ==
    (\A p \in Procs : pc[p] = "idle") =>
        /\ \A k \in 1..Len(invoices) :
              invoices[k].status = "completed" => StockApplied(k)
        /\ \A e \in 1..Len(stockLedger) :
              stockLedger[e].type = "sale" =>
                  \E k \in 1..Len(invoices) :
                      invoices[k].invoiceNumber = stockLedger[e].referenceId

\* The ledger entries of an item, in creation order.
EntriesOf(i) == SelectSeq(stockLedger, LAMBDA e : e.itemId = i)

\* C5: for every item, its ledger entries in creation order satisfy
\* entry[i].previousStock = entry[i-1].newStock and
\* entry[i].newStock = entry[i].previousStock + entry[i].quantityChange.
C5_LedgerChain ==
    \A i \in Items :
        LET entries == EntriesOf(i)
        IN  \A k \in 1..Len(entries) :
                /\ entries[k].newStock =
                       entries[k].previousStock + entries[k].quantityChange
                /\ k > 1 => entries[k].previousStock = entries[k - 1].newStock

\* An item whose chain links a sale, a purchase and a reversal.
C5_Witness ==
    \E i \in Items :
        LET entries == EntriesOf(i)
        IN  {entries[k].type : k \in 1..Len(entries)} =
                {"sale", "purchase", "adjustment"}

\* C6: no two invoices in the store carry the same invoiceNumber.
C6_DocumentNumbersUnique ==
    \A a, b \in 1..Len(invoices) :
        a # b => invoices[a].invoiceNumber # invoices[b].invoiceNumber

\* The last ledger entry of item i (0 if it has none).
LastEntryOf(i) ==
    LET at == {e \in 1..Len(stockLedger) : stockLedger[e].itemId = i}
    IN  IF at = {} THEN 0 ELSE CHOOSE e \in at : \A f \in at : f <= e

\* Nothing has touched the items of invoice k since its sale: for each line
\* the item's last ledger entry is that sale's and its stock is that entry's.
UntouchedSinceSale(k) ==
    \A j \in 1..Len(invoices[k].items) :
        LET line == invoices[k].items[j]
            e == LastEntryOf(line.itemId)
        IN  /\ e # 0
            /\ stockLedger[e].type = "sale"
            /\ stockLedger[e].referenceId = invoices[k].invoiceNumber
            /\ stockLedger[e].quantityChange = -line.quantity
            /\ items[line.itemId] = stockLedger[e].newStock

\* C7: when a completed sale whose items nothing touched since is cancelled,
\* each item's currentStock returns to its value before the sale, the ledger
\* gains exactly one 'adjustment' entry per line with quantityChange =
\* +quantity and referenceId 'CANCEL-' + invoice number, and the entries
\* already in the ledger stay as they were.
C7_CancelRestoresStock ==
    [][\A k \in 1..Len(invoices) :
          (/\ invoices[k].status = "completed"
           /\ invoices'[k].status = "cancelled"
           /\ UntouchedSinceSale(k)) =>
              LET lines == invoices[k].items
                  n == Len(stockLedger)
              IN  /\ \A j \in 1..Len(lines) :
                         items'[lines[j].itemId] =
                             stockLedger[LastEntryOf(lines[j].itemId)].previousStock
                  /\ Len(stockLedger') = n + Len(lines)
                  /\ SubSeq(stockLedger', 1, n) = stockLedger
                  /\ \A j \in 1..Len(lines) :
                         /\ stockLedger'[n + j].type = "adjustment"
                         /\ stockLedger'[n + j].itemId = lines[j].itemId
                         /\ stockLedger'[n + j].quantityChange = lines[j].quantity
                         /\ stockLedger'[n + j].referenceId =
                                <<"CANCEL-">> \o invoices[k].invoiceNumber]_vars

\* A cancelled sale: its sale entry is followed at once by its reversal, and
\* the item is back at its stock before the sale.
C7_Witness ==
    \E k \in 1..Len(invoices), e \in 1..Len(stockLedger) :
        /\ invoices[k].status = "cancelled"
        /\ e < Len(stockLedger)
        /\ stockLedger[e].type = "sale"
        /\ stockLedger[e].referenceId = invoices[k].invoiceNumber
        /\ stockLedger[e + 1].type = "adjustment"
        /\ stockLedger[e + 1].referenceId = CancelReference(invoices[k].invoiceNumber)
        /\ stockLedger[e + 1].itemId = stockLedger[e].itemId
        /\ stockLedger[e + 1].quantityChange = -stockLedger[e].quantityChange
        /\ items[stockLedger[e].itemId] = stockLedger[e].previousStock

\* C8: a cancel call that finds its invoice already cancelled ends with an
\* error and changes neither the invoices, nor the stock, nor the ledger.
C8_CancelOfCancelledRejected ==
    [][\A p \in Procs :
          (/\ pc[p] = "cancel_read"
           /\ pc'[p] # "cancel_read"
           /\ loc[p].invId <= Len(invoices)
           /\ invoices[loc[p].invId].status = "cancelled") =>
              /\ res'[p] = "error"
              /\ pc'[p] = "idle"
              /\ UNCHANGED <<invoices, items, stockLedger>>]_vars

\* A second cancel call, made for an invoice a first call has cancelled.
C8_Witness ==
    \E p \in Procs :
        /\ pc[p] = "cancel_read"
        /\ loc[p].invId <= Len(invoices)
        /\ invoices[loc[p].invId].status = "cancelled"
        /\ \E e \in 1..Len(stockLedger) : stockLedger[e].type = "adjustment"

\* C9: no invoice leaves the store, and the status of an invoice only
\* changes along draft -> completed, draft -> cancelled or completed ->
\* cancelled.
C9_StatusTransitions ==
    [][/\ Len(invoices') >= Len(invoices)
       /\ \A k \in 1..Len(invoices) :
             \/ invoices'[k].status = invoices[k].status
             \/ <<invoices[k].status, invoices'[k].status>> \in
                    {<<"draft", "completed">>, <<"draft", "cancelled">>,
                     <<"completed", "cancelled">>}]_vars

\* A cancelled draft (no reversal refers to it) beside a cancelled sale.
C9_Witness ==
    \E a, b \in 1..Len(invoices) :
        /\ invoices[a].status = "cancelled"
        /\ invoices[b].status = "cancelled"
        /\ invoices[a].invoiceNumber # invoices[b].invoiceNumber
        /\ \A e \in 1..Len(stockLedger) :
              stockLedger[e].referenceId \notin
                  {invoices[a].invoiceNumber, CancelReference(invoices[a].invoiceNumber)}
        /\ \E e \in 1..Len(stockLedger) :
              stockLedger[e].referenceId = CancelReference(invoices[b].invoiceNumber)

\* The sum of the quantity changes the ledger records for an item.
RECURSIVE QuantityChanges(_, _)
QuantityChanges(ledger, i) ==
    IF ledger = <<>> THEN 0
    ELSE (IF Head(ledger).itemId = i THEN Head(ledger).quantityChange ELSE 0)
         + QuantityChanges(Tail(ledger), i)

\* C10: however the sales, purchases and reversals of the callers interleave,
\* every item's currentStock is its initial stock plus the sum of the
\* quantity changes of the operations that went through: no update is lost.
C10_NoLostUpdate ==
    \A i \in Items : items[i] = InitialStock + QuantityChanges(stockLedger, i)

\* Two stock transactions on one item at once: one runs, the other waits
\* for the tables, and an earlier one has already gone through.
C10_Witness ==
    \E p, q \in Procs :
        /\ pc[p] \in {"sale_end", "purchase_end", "cancel_end"}
        /\ pc[q] \in {"sale_begin", "purchase_begin", "cancel_begin"}
        /\ Written(loc[p].wLedger) \cap
               {loc[q].lines[k].itemId : k \in 1..Len(loc[q].lines)} # {}
        /\ stockLedger # <<>>

\* The numbers of one series (told apart by their number of parts) that the
\* allocators have returned, as a bag.
IssuedOf(parts) ==
    [n \in {m \in BagToSet(issued) : Len(m) = parts} |-> CopiesIn(n, issued)]

\* C11: the calls made for a series since its counter held c have returned
\* exactly c+1, c+2, ..., c+N: as many numbers as calls, none skipped and
\* none returned twice. Checked for invoices (c = 1000) and purchases (500).
C11_GaplessAllocation ==
    /\ {SequenceOf(n) : n \in DOMAIN IssuedOf(3)} =
           (InitialInvoiceNumber + 1)..settings.currentInvoiceNumber
    /\ BagCardinality(IssuedOf(3)) =
           settings.currentInvoiceNumber - InitialInvoiceNumber
    /\ {SequenceOf(n) : n \in DOMAIN IssuedOf(2)} =
           (InitialPurchaseNumber + 1)..settings.currentPurchaseNumber
    /\ BagCardinality(IssuedOf(2)) =
           settings.currentPurchaseNumber - InitialPurchaseNumber

\* Three invoice numbers and two purchase numbers have been returned, the
\* last invoice call having waited for a transaction of the other caller.
C11_Witness ==
    /\ BagCardinality(IssuedOf(3)) = 3
    /\ BagCardinality(IssuedOf(2)) = 2
    /\ \A p \in Procs : page[p].invoiceNumber # NoNumber

\* C12: a step that hands a number to a caller raises the stored counter of
\* its series by exactly 1, the number handed out is the value the store
\* then holds, and it is greater than every number of the series handed out
\* before, restarts included; no other step changes a counter.
C12_CounterPersistedBeforeReturn ==
    [][IF issued' # issued
       THEN \E n \in BagToSet(issued') :
               /\ issued' = issued (+) SetToBag({n})
               /\ \A m \in BagToSet(issued) :
                     Len(m) = Len(n) => SequenceOf(m) < SequenceOf(n)
               /\ IF Len(n) = 3
                  THEN /\ settings'.currentInvoiceNumber =
                              settings.currentInvoiceNumber + 1
                       /\ SequenceOf(n) = settings'.currentInvoiceNumber
                       /\ UNCHANGED settings.currentPurchaseNumber
                  ELSE /\ settings'.currentPurchaseNumber =
                              settings.currentPurchaseNumber + 1
                       /\ SequenceOf(n) = settings'.currentPurchaseNumber
                       /\ UNCHANGED settings.currentInvoiceNumber
       ELSE UNCHANGED settings]_vars

\* After a restart of every page, with numbers handed out before it, an
\* allocation is under way.
C12_Witness ==
    /\ \A p \in Procs : page[p].invoiceNumber = NoNumber
    /\ BagCardinality(IssuedOf(3)) >= 2
    /\ \E p \in Procs : pc[p] = "inv_number_write"

\* C13: the ledger only grows, and every entry written earlier is still
\* present with the same field values.
C13_LedgerAppendOnly ==
    [][/\ Len(stockLedger') >= Len(stockLedger)
       /\ SubSeq(stockLedger', 1, Len(stockLedger)) = stockLedger]_vars

\* C14: a document is written only if no stored document has its number: a
\* step that adds an invoice (a purchase) adds one whose number no stored
\* invoice (purchase) carries.
C14_NumberCheckedBeforeCommit ==
    [][/\ Len(invoices') > Len(invoices) =>
             \A k \in 1..Len(invoices) :
                 invoices[k].invoiceNumber #
                     invoices'[Len(invoices')].invoiceNumber
       /\ Len(purchases') > Len(purchases) =>
             \A k \in 1..Len(purchases) :
                 purchases[k].purchaseNumber #
                     purchases'[Len(purchases')].purchaseNumber]_vars

\* An intrastate call of one of the two GST split routines has returned.
IntrastateSplit ==
    /\ calc.fn \in {"calculateGstBreakdown", "calculateGst"}
    /\ ~calc.args.isInterState

\* C15: in each of the two GST split routines, for every taxable amount and
\* every rate, the intrastate halves add up to the rounded GST amount:
\* cgst + sgst = round2(T * R / 100), with no drift.
C15_SplitSum ==
    IntrastateSplit =>
        calc.result.cgst + calc.result.sgst = calc.result.gstAmount

SplitReturned == calc.fn \in {"calculateGstBreakdown", "calculateGst"}

HalvesNonzero == calc.result.cgst # 0 \/ calc.result.sgst # 0

IgstNonzero == calc.result.igst # 0

\* The side of the split the line's kind selects: an interstate line has
\* igst equal to the GST amount and no halves, an intrastate line no igst.
SplitSide ==
    /\ calc.args.isInterState =>
          /\ calc.result.igst = calc.result.gstAmount
          /\ calc.result.cgst = 0
          /\ calc.result.sgst = 0
    /\ ~calc.args.isInterState => calc.result.igst = 0

\* C16 as stated: for all inputs to the tax split, exactly one of the group
\* {cgst, sgst} and the group {igst} is nonzero, and the line's kind selects
\* which.
C16_ExactlyOneGroupNonzero ==
    SplitReturned => (HalvesNonzero # IgstNonzero) /\ SplitSide

\* C16 amended: the two groups are never both nonzero and the line's kind
\* selects the side; when the GST amount is zero (a 0% rate, or an amount
\* whose tax rounds to nothing) both groups are zero, and otherwise
\* calculateGstBreakdown leaves exactly one of them nonzero.
C16_NeverBothGroupsNonzero ==
    SplitReturned =>
        /\ ~(HalvesNonzero /\ IgstNonzero)
        /\ SplitSide
        /\ calc.result.gstAmount = 0 => ~HalvesNonzero /\ ~IgstNonzero
        /\ calc.fn = "calculateGstBreakdown" /\ calc.result.gstAmount # 0 =>
              HalvesNonzero # IgstNonzero

\* An interstate line with tax to pay has been split.
C16_Witness ==
    /\ calc.fn = "calculateGstBreakdown"
    /\ calc.args.isInterState
    /\ calc.result.igst > 0
    /\ calc.result.igst = calc.result.gstAmount

\* C17: for every invoice, grandTotal is a whole number of rupees and
\* |roundOff| < 1 rupee, where roundOff = grandTotal - (subtotal + total tax)
\* and subtotal is the sum of the lines' taxable amounts (the taxableValue of
\* calculateInvoiceTotals, the subtotal of the billing page); it holds for the
\* totals calculateInvoiceTotals computes and for those the billing page stores.
C17_RoundOffBound ==
    /\ calc.fn = "calculateInvoiceTotals" =>
          /\ calc.result.grandTotal % 100 = 0
          /\ calc.result.roundOff =
                 calc.result.grandTotal
                     - (calc.result.taxableValue + calc.result.totalTax)
          /\ calc.result.roundOff > -100
          /\ calc.result.roundOff < 100
    /\ calc.fn = "Billing" =>
          /\ calc.result.grandTotal % PartsPerRupee = 0
          /\ calc.result.roundOff =
                 calc.result.grandTotal
                     - (calc.result.subtotal + calc.result.totalCgst
                            + calc.result.totalSgst + calc.result.totalIgst)
          /\ calc.result.roundOff > -PartsPerRupee
          /\ calc.result.roundOff < PartsPerRupee

\* A discounted invoice of MaxLines lines whose total was rounded down.
C17_Witness ==
    /\ calc.fn = "calculateInvoiceTotals"
    /\ Len(calc.args.lines) = MaxLines
    /\ calc.result.totalDiscount > 0
    /\ calc.result.totalTax > 0
    /\ calc.result.roundOff < 0

\* C18: in the intrastate split cgst = round2(gstAmount / 2) and
\* sgst = gstAmount - cgst: SGST is the remainder, so it is SGST that takes the
\* odd paisa's shortfall.
C18_SgstIsRemainder ==
    IntrastateSplit =>
        /\ calc.result.cgst = MathRound(calc.result.gstAmount, 2)
        /\ calc.result.sgst = calc.result.gstAmount - calc.result.cgst

\* C19: the fiscal year of a document number is a function of the date read
\* when the number is made: the calendar year when the month is April or
\* later, the year before otherwise, labelled "{year}-{(year + 1) mod 100}";
\* 31 March 2025 gives "2024-25" and 1 April 2025 gives "2025-26".
C19_FiscalYearOfDate ==
    calc.fn = "getFiscalYear" =>
        LET date == calc.args.now
            calendarMonth == date.month + 1
            year == IF calendarMonth >= 4 THEN date.year ELSE date.year - 1
        IN  /\ calc.result = <<year, (year + 1) % 100>>
            /\ date = [year |-> 2025, month |-> 2, day |-> 31] =>
                   calc.result = <<2024, 25>>
            /\ date = [year |-> 2025, month |-> 3, day |-> 1] =>
                   calc.result = <<2025, 26>>

\* The label of 31 March 2025 has been computed.
C19_Witness ==
    /\ calc.fn = "getFiscalYear"
    /\ calc.args.now = [year |-> 2025, month |-> 2, day |-> 31]
    /\ calc.result = <<2024, 25>>

\* The window's session is valid and its role holds the permission.
Permitted(permission) ==
    /\ session # NoSession
    /\ permission \in ROLE_PERMISSIONS[session]

\* The permission that governs the movement a ledger entry records.
PermissionOfEntry(entry) ==
    CASE entry.type = "sale" -> "canCreateInvoice"
      [] entry.type = "purchase" -> "canCreatePurchase"
      [] entry.type = "adjustment" -> "canCancelInvoice"

\* C20: every mutating operation (saving an invoice or a purchase, cancelling
\* an invoice, changing an item or its stock) passes the permission check
\* before it mutates anything: with no valid session, or a role that lacks
\* the operation's permission, no step adds a document, cancels an invoice,
\* appends a ledger entry or changes an item's stock.
C20_PermissionBeforeMutation ==
    [][/\ Len(invoices') > Len(invoices) => Permitted("canCreateInvoice")
       /\ Len(purchases') > Len(purchases) => Permitted("canCreatePurchase")
       /\ (\E k \in 1..Len(invoices) :
              /\ invoices[k].status # "cancelled"
              /\ invoices'[k].status = "cancelled")
             => Permitted("canCancelInvoice")
       /\ Len(stockLedger') > Len(stockLedger) =>
             Permitted(PermissionOfEntry(stockLedger'[Len(stockLedger')]))
       /\ (items' # items /\ stockLedger' = stockLedger) =>
             Permitted("canManageInventory")]_vars

\* The step hands out one number of `parts` parts whose sequence is `counter`.
AllocatedBy(parts, counter) ==
    \E n \in BagToSet(issued') :
        /\ issued' = issued (+) SetToBag({n})
        /\ Len(n) = parts
        /\ SequenceOf(n) = counter

\* C21: the sequence counter of a document class is changed by a number
\* allocation and by nothing else: every step that changes a counter raises
\* it by one and hands out the number of the new value, so settings edits,
\* saves, cancellations, imports and restores leave it alone and it never
\* decreases.
C21_CounterChangedOnlyByAllocation ==
    [][/\ settings'.currentInvoiceNumber # settings.currentInvoiceNumber =>
             /\ settings'.currentInvoiceNumber = settings.currentInvoiceNumber + 1
             /\ AllocatedBy(3, settings'.currentInvoiceNumber)
       /\ settings'.currentPurchaseNumber # settings.currentPurchaseNumber =>
             /\ settings'.currentPurchaseNumber = settings.currentPurchaseNumber + 1
             /\ AllocatedBy(2, settings'.currentPurchaseNumber)]_vars


\* What the main process has seen of a token: never generated, generated
\* and past its expiresAt, or invalidated by auth-logout.
Unknown(token) == token \notin 1..Len(minted)

Expired(token) == token \in 1..Len(minted) /\ clock > minted[token].expiresAt

LoggedOut(token) == token \in 1..Len(minted) /\ minted[token].ended

\* The step is a call of the channel's handler with the token (which ipc
\* names from then on).
Call(channel, token) ==
    \/ IpcHandle(channel, token)
    \/ /\ channel = "update-item"
       /\ token = sessionStorage
       /\ \E item \in Items, currentStock \in 0..InitialStock :
             UpdateItem(item, currentStock)

\* C22: every handler that reads or changes business data verifies the
\* session token before it touches the database: a call whose token is
\* unknown, expired (the clock is past its expiresAt) or logged out throws
\* AUTH_REQUIRED and changes no item; as the clock does not go back and a
\* logout is not undone, such a token is never accepted again.
C22_TokenVerifiedFirst ==
    [][(/\ ipc'.channel \in Channels
        /\ Unknown(ipc'.token) \/ Expired(ipc'.token) \/ LoggedOut(ipc'.token)
        /\ Call(ipc'.channel, ipc'.token))
          => /\ ipc'.outcome = "AUTH_REQUIRED"
             /\ items' = items]_vars

\* A handler has thrown out a token that was logged out before its time was
\* up, and while the time of another token is up.
C22_Witness ==
    /\ ipc.channel \in Channels
    /\ ipc.outcome = "AUTH_REQUIRED"
    /\ LoggedOut(ipc.token)
    /\ ~Expired(ipc.token)
    /\ \E token \in 1..Len(minted) : Expired(token) /\ ~LoggedOut(token)


\* String(n): the decimal digits of a number, first digit first.
RECURSIVE String(_)
String(n) == IF n < 10 THEN <<n>> ELSE Append(String(n \div 10), n % 10)

\* digits.padStart(targetLength, '0')
padStart(digits, targetLength) ==
    [k \in 1..(targetLength - Len(digits)) |-> 0] \o digits

\* The parts of a number as the allocator's template prints them:
\* PREFIX/FY/NNNN with FY a four-digit year, a dash and two digits, and NNNN
\* the sequence in four digits.
HasDocumentNumberForm(number) ==
    /\ Len(number) = 3
    /\ Len(String(number[2][1])) = 4
    /\ Len(String(number[2][2])) = 2
    /\ Len(padStart(String(number[3]), 4)) = 4

\* C23: every document number handed out, for invoices and for purchases
\* alike, has the form PREFIX/FY/NNNN: a prefix, the fiscal-year label
\* YYYY-YY and the sequence number zero-padded to four digits.
C23_DocumentNumberForm ==
    \A number \in BagToSet(issued) : HasDocumentNumberForm(number)


\* The ledger rows that reverse the invoice stored under id k.
Reversals(k) ==
    {j \in 1..Len(stockLedger) :
        stockLedger[j].referenceId = CancelReference(invoices[k].invoiceNumber)}

\* C24: when two cancel calls for the same completed invoice overlap, its
\* stock is restored at most once: the ledger holds one 'CANCEL-' adjustment
\* row per line of the invoice at most (each row raising currentStock by the
\* sold quantity), for every invoice that has its number to itself.
C24_StockRestoredAtMostOnce ==
    \A k \in 1..Len(invoices) :
        (\A other \in 1..Len(invoices) :
            invoices[other].invoiceNumber = invoices[k].invoiceNumber => other = k)
          => Cardinality(Reversals(k)) <= Len(invoices[k].items)


StoredUnder(number) ==
    {k \in 1..Len(invoices) : invoices[k].invoiceNumber = number}

\* The number is still in use: a Billing page shows it, or a save that
\* carries it is under way.
InUse(number) ==
    \E p \in Procs :
        \/ page[p].invoiceNumber = number
        \/ pc[p] # "idle" /\ loc[p].ref = number

\* C26: every invoice number handed out by the allocator ends up on exactly
\* one stored invoice, so the stored numbers form an unbroken run: no number
\* is on two invoices, and a number that no page shows any more is on one.
C26_EveryNumberOnOneInvoice ==
    \A number \in BagToSet(issued) :
        /\ Cardinality(StoredUnder(number)) <= 1
        /\ ~InUse(number) => Cardinality(StoredUnder(number)) = 1


\* The step belongs to a handler that saves a draft or cancels one: the
\* status it carries (the one handleSave was called with, the one
\* cancelInvoice read) is 'draft'.
DraftStep(p) ==
    /\ pc[p] # "idle"
    /\ pc'[p] # pc[p]
    /\ loc[p].status = "draft"

\* C27: saving a draft and cancelling a draft change no item's stock and add
\* no ledger entry, in any of their steps.
C27_DraftsMoveNoStock ==
    [][\A p \in Procs : DraftStep(p) => items' = items /\ stockLedger' = stockLedger]_vars

\* A draft has been saved and cancelled (no stock moved under its number)
\* next to a completed sale.
C27_Witness ==
    /\ stockLedger # <<>>
    /\ \E k \in 1..Len(invoices) :
          /\ invoices[k].status = "cancelled"
          /\ \A j \in 1..Len(stockLedger) :
                stockLedger[j].referenceId \notin
                    {invoices[k].invoiceNumber,
                     CancelReference(invoices[k].invoiceNumber)}


\* The lines of the Billing form for the drawn arguments.
BillingLines ==
    [k \in 1..Len(calc.args.lines) |->
        updateLineItem(calc.args.lines[k], calc.args.isInterState)]

\* C28: an invoice's totalCgst, totalSgst and totalIgst each equal the sum
\* of the per-line tax amounts, a line's amount (which covers the line's
\* whole quantity) counted once: for the totals the billing page stores and
\* for those calculateInvoiceTotals returns.
C28_TaxTotalsCountLinesOnce ==
    /\ calc.fn = "Billing" =>
          /\ calc.result.totalCgst = Sum([k \in DOMAIN BillingLines |-> BillingLines[k].cgst])
          /\ calc.result.totalSgst = Sum([k \in DOMAIN BillingLines |-> BillingLines[k].sgst])
          /\ calc.result.totalIgst = Sum([k \in DOMAIN BillingLines |-> BillingLines[k].igst])
    /\ calc.fn = "calculateInvoiceTotals" =>
          \E lineItems \in LineItemCalculations(calc.args.lines, calc.args.isInterState) :
             /\ calc.result.totalCgst = Sum([k \in DOMAIN lineItems |-> lineItems[k].totalCgst])
             /\ calc.result.totalSgst = Sum([k \in DOMAIN lineItems |-> lineItems[k].totalSgst])
             /\ calc.result.totalIgst = Sum([k \in DOMAIN lineItems |-> lineItems[k].totalIgst])


\* C29: a line whose per-unit discount exceeds its unit price is rejected
\* before its taxable amount is computed, so that no line of a stored
\* document has a negative taxableAmount: the page computes a line only for
\* a discount up to the price, and the amount it stores is not negative.
C29_NoNegativeTaxableAmount ==
    calc.fn = "updateLineItem" =>
        /\ calc.args.lines[1].discount <= calc.args.lines[1].unitPrice
        /\ calc.result.taxableAmount >= 0


\* C30: on the same store state and the same lines, validateStockForSale
\* reports valid exactly when updateStockAfterSale completes without error,
\* batches that name an item on two lines or an item that does not exist
\* included.
C30_DryRunAgreesWithUpdate ==
    /\ calc.fn = "validateStockForSale" =>
          calc.result.valid = updateStockAfterSale(calc.args.lines).completed
    /\ calc.fn = "updateStockAfterSale" =>
          calc.result.completed = validateStockForSale(calc.args.lines).valid
====
